---- MODULE Spec2Model ----
(***************************************************************************)
(* A model of genmesh's polygon abstractions (src/src/poly.rs) and of the  *)
(* UV-sphere generator (src/src/sphere.rs).                                *)
(*                                                                         *)
(* Unsigned integers (`uint`) are represented by integers: a value n >= 0  *)
(* stands for itself and a value -k < 0 stands for 2^w - k, the result of  *)
(* a wrapping subtraction below zero.  +, - and * are then the machine's   *)
(* operations, and = is the machine's equality as long as the values stay  *)
(* far from 2^(w-1), which the bounds below ensure.                        *)
(*                                                                         *)
(* Option<T> is a record: None, or Some(val).                              *)
(***************************************************************************)
EXTENDS Integers, Sequences, FiniteSets, TLC

VARIABLES
    \* SphereUV (sphere.rs:23-28)
    u, v, sub_u, sub_v,
    \* observation of the SphereUV's caller
    calls,      \* number of next() calls made so far
    ret,        \* what the last next() call returned
    hist,       \* the sequence of all values returned by next()
    q,          \* the last random-access query and its result
    \* VerticesIterator (poly.rs:132-135)
    source, buffer,
    \* observation of the VerticesIterator's caller
    given,      \* the polygons the source was constructed to yield
    pulled,     \* the polygons pulled from the source so far
    vcalls,     \* number of next() calls made so far
    vret,       \* what the last next() call returned
    vout,       \* the sequence of all vertices returned
    firstNone,  \* Len(vout) at the first None, -1 before it
    \* a shape, a vertex function, and the results of mapping and emitting
    shape, fn, mapped, mapCalls, emitted, emittedMapped,
    \* MapToVerticesIter (poly.rs:213-216): its src; its f is fn
    mapSrc,
    \* observation of the MapToVerticesIter's caller
    mapSrc0,    \* the source the iterator was constructed with
    mcalls,     \* number of next() calls made so far
    mret,       \* what the last next() call returned
    mout        \* the sequence of all values returned by next()

vars == <<u, v, sub_u, sub_v, calls, ret, hist, q,
          source, buffer, given, pulled, vcalls, vret, vout, firstNone,
          shape, fn, mapped, mapCalls, emitted, emittedMapped,
          mapSrc, mapSrc0, mcalls, mret, mout>>

sphereVars == <<u, v, sub_u, sub_v, calls, ret, hist, q>>
vertVars   == <<source, buffer, given, pulled, vcalls, vret, vout, firstNone>>
polyVars   == <<shape, fn, mapped, mapCalls, emitted, emittedMapped>>
mapVars    == <<mapSrc, mapSrc0, mcalls, mret, mout>>

----------------------------------------------------------------------------
\* Bounds

MaxSubU == 4        \* largest sub_u explored
MaxSubV == 4        \* largest sub_v explored
ExtraCalls == 3     \* next() calls explored beyond sub_u*sub_v + 1
MaxCalls == MaxSubU * MaxSubV + 1 + ExtraCalls
MaxIdx == MaxSubU * MaxSubV + 1   \* largest index passed to a query
MaxPolys == 3       \* longest polygon sequence given to a VerticesIterator
MaxSrcSub == 2      \* largest sub_u, sub_v of a sphere given to one
MaxVCalls == 4 * MaxPolys + 3     \* VerticesIterator next() calls explored
MaxVertex == 1      \* vertex values of a mapped shape are 0..MaxVertex
MaxMCalls == MaxPolys + 3         \* MapToVerticesIter next() calls explored

----------------------------------------------------------------------------
\* Option, and the shapes of poly.rs

None == [some |-> FALSE]
Some(val) == [some |-> TRUE, val |-> val]

Triangle(v0, v1, v2) == [x |-> v0, y |-> v1, z |-> v2]
Quad(v0, v1, v2, v3) == [x |-> v0, y |-> v1, z |-> v2, w |-> v3]
PolyTri(t) == [tag |-> "PolyTri", p |-> t]
PolyQuad(t) == [tag |-> "PolyQuad", p |-> t]

IsPolygon(s) == "tag" \in DOMAIN s
IsQuad(s) == "w" \in DOMAIN s

\* EmitVertices: the sequence of values passed to the sink, in call order
Triangle_emit_vertices(t) == <<t.x, t.y, t.z>>
Quad_emit_vertices(t) == <<t.x, t.y, t.z, t.w>>
Polygon_emit_vertices(p) ==
    IF p.tag = "PolyTri"
    THEN Triangle_emit_vertices(p.p)
    ELSE Quad_emit_vertices(p.p)

\* the impl of EmitVertices that the type of s selects
emit_vertices(s) ==
    IF IsPolygon(s) THEN Polygon_emit_vertices(s)
    ELSE IF IsQuad(s) THEN Quad_emit_vertices(s)
    ELSE Triangle_emit_vertices(s)

\* one call of the closure `map`: its result, and the log of its calls
Call(map, log, a) == [val |-> map[a], log |-> Append(log, a)]

\* MapVertex: the new shape, and the log of the calls of `map`
Triangle_map_vertex_swapped(t, map, log) ==
    LET cx == Call(map, log, t.y)
        cy == Call(map, cx.log, t.x)
        cz == Call(map, cy.log, t.z)
    IN  [p |-> [x |-> cx.val, y |-> cy.val, z |-> cz.val], log |-> cz.log]
Triangle_map_vertex(t, map, log) ==
    LET cx == Call(map, log, t.x)
        cy == Call(map, cx.log, t.y)
        cz == Call(map, cy.log, t.z)
    IN  [p |-> [x |-> cx.val, y |-> cy.val, z |-> cz.val], log |-> cz.log]

Quad_map_vertex_dupz(t, map, log) ==
    LET cx == Call(map, log, t.x)
        cy == Call(map, cx.log, t.y)
        cz == Call(map, cy.log, t.z)
        cw == Call(map, cz.log, t.z)
    IN  [p |-> [x |-> cx.val, y |-> cy.val, z |-> cz.val, w |-> cw.val],
         log |-> cw.log]
Quad_map_vertex(t, map, log) ==
    LET cx == Call(map, log, t.x)
        cy == Call(map, cx.log, t.y)
        cz == Call(map, cy.log, t.z)
        cw == Call(map, cz.log, t.w)
    IN  [p |-> [x |-> cx.val, y |-> cy.val, z |-> cz.val, w |-> cw.val],
         log |-> cw.log]

Polygon_map_vertex(p, map, log) ==
    IF p.tag = "PolyTri"
    THEN LET r == Triangle_map_vertex(p.p, map, log)
         IN  [p |-> PolyTri(r.p), log |-> r.log]
    ELSE LET r == Quad_map_vertex(p.p, map, log)
         IN  [p |-> PolyQuad(r.p), log |-> r.log]

\* the impl of MapVertex that the type of s selects
map_vertex(s, map, log) ==
    IF IsPolygon(s) THEN Polygon_map_vertex(s, map, log)
    ELSE IF IsQuad(s) THEN Quad_map_vertex(s, map, log)
    ELSE Triangle_map_vertex(s, map, log)

----------------------------------------------------------------------------
\* SphereUV

\* SphereUV::new
SphereUV(nu, nv) == [u |-> 0, v |-> 0, sub_u |-> nu, sub_v |-> nv]

\* vert: the position is a function of the grid point (a, b) alone; the
\* model keeps the grid point at which the position is evaluated.
vert(self, a, b) == [gu |-> a, gv |-> b]

\* The identifications that vert's formula makes between grid points, up to
\* f32 rounding: sin(pi*b/sub_v) = 0 at b = 0 and at b = sub_v, so that a
\* whole row is one pole, and cos/sin(2*pi*a/sub_u) have period sub_u in a.
Position(self, g) ==
    IF g.gv = 0 THEN [gu |-> 0, gv |-> 0]
    ELSE IF g.gv = self.sub_v THEN [gu |-> 0, gv |-> self.sub_v]
    ELSE [gu |-> g.gu % self.sub_u, gv |-> g.gv]

\* the exhaustion test of next(), made after v was incremented
Exhausted_early(self) == self.v = self.sub_v - 1
Exhausted(self) == self.v = self.sub_v

\* the shape next() emits for row v0 from the four corners
RowPolygon_pastend(self, v0, x, y, z, w) ==
    IF v0 = 0
    THEN PolyTri(Triangle(x, y, z))
    ELSE IF v0 = self.sub_v
    THEN PolyTri(Triangle(z, w, x))
    ELSE PolyQuad(Quad(x, y, z, w))
RowPolygon(self, v0, x, y, z, w) ==
    IF v0 = 0
    THEN PolyTri(Triangle(x, y, z))
    ELSE IF v0 = self.sub_v - 1
    THEN PolyTri(Triangle(z, w, x))
    ELSE PolyQuad(Quad(x, y, z, w))

\* Iterator::next for SphereUV: the new generator and the returned value
SphereUV_next(self) ==
    LET wrap == self.u = self.sub_u
        s1 == IF wrap THEN [self EXCEPT !.u = 0, !.v = self.v + 1] ELSE self
    IN  IF wrap /\ Exhausted(s1)
        THEN [self |-> s1, ret |-> None]
        ELSE LET x == vert(s1, s1.u,     s1.v)
                 y == vert(s1, s1.u,     s1.v + 1)
                 z == vert(s1, s1.u + 1, s1.v + 1)
                 w == vert(s1, s1.u + 1, s1.v)
                 v0 == s1.v
                 s2 == [s1 EXCEPT !.u = s1.u + 1]
             IN  [self |-> s2, ret |-> Some(RowPolygon(s2, v0, x, y, z, w))]

shared_vertex_count_rows(self) == self.sub_v * self.sub_u + 2
shared_vertex_count(self) == (self.sub_v - 1) * self.sub_u + 2

shared_vertex_nojump(self, idx) ==
    IF idx = 0
    THEN vert(self, 0, 0)
    ELSE IF idx = shared_vertex_count(self) - 1
    THEN vert(self, 0, self.sub_v)
    ELSE LET idx1 == idx - 1
             a == idx1 % self.sub_u
             b == idx1 \div self.sub_u
         IN  vert(self, a, b)
shared_vertex(self, idx) ==
    IF idx = 0
    THEN vert(self, 0, 0)
    ELSE IF idx = shared_vertex_count(self) - 1
    THEN vert(self, 0, self.sub_v)
    ELSE LET idx1 == idx - 1
             a == idx1 % self.sub_u
             b == idx1 \div self.sub_u
         IN  vert(self, a, b + 1)

\* the closure f of indexed_polygon
f_noseam(self, a, b) ==
    IF b = 0
    THEN 0
    ELSE IF self.sub_v = b
    THEN (self.sub_v - 1) * self.sub_u + 1
    ELSE (b - 1) * self.sub_u + a + 1
f_norowshift(self, a, b) ==
    IF b = 0
    THEN 0
    ELSE IF self.sub_v = b
    THEN (self.sub_v - 1) * self.sub_u + 1
    ELSE b * self.sub_u + (a % self.sub_u) + 1
f(self, a, b) ==
    IF b = 0
    THEN 0
    ELSE IF self.sub_v = b
    THEN (self.sub_v - 1) * self.sub_u + 1
    ELSE (b - 1) * self.sub_u + (a % self.sub_u) + 1

indexed_polygon_cursor(self, idx) ==
    LET a == idx % self.sub_u
        b == self.v
    IN  IF b = 0
        THEN PolyTri(Triangle(f(self, a,     b),
                              f(self, a,     b + 1),
                              f(self, a + 1, b + 1)))
        ELSE IF self.sub_v - 1 = b
        THEN PolyTri(Triangle(f(self, a + 1, b + 1),
                              f(self, a + 1, b),
                              f(self, a,     b)))
        ELSE PolyQuad(Quad(f(self, a,     b),
                           f(self, a,     b + 1),
                           f(self, a + 1, b + 1),
                           f(self, a + 1, b)))
indexed_polygon(self, idx) ==
    LET a == idx % self.sub_u
        b == idx \div self.sub_u
    IN  IF b = 0
        THEN PolyTri(Triangle(f(self, a,     b),
                              f(self, a,     b + 1),
                              f(self, a + 1, b + 1)))
        ELSE IF self.sub_v - 1 = b
        THEN PolyTri(Triangle(f(self, a + 1, b + 1),
                              f(self, a + 1, b),
                              f(self, a,     b)))
        ELSE PolyQuad(Quad(f(self, a,     b),
                           f(self, a,     b + 1),
                           f(self, a + 1, b + 1),
                           f(self, a + 1, b)))

indexed_polygon_count(self) == self.sub_v * self.sub_u

\* a < b on uint, for a small a >= 0 (a negative b stands for 2^w - |b|)
ULt(a, b) == b < 0 \/ a < b

\* The subtractions, divisions and remainders each function evaluates, with
\* their operands, under the function's own control flow.
Sub(a, b) == [op |-> "sub", a |-> a, b |-> b]
Div(a, b) == [op |-> "div", a |-> a, b |-> b]
Mod(a, b) == [op |-> "mod", a |-> a, b |-> b]

\* vert: the two f32 divisions
vert_ops(self, a, b) == {Div(a, self.sub_u), Div(b, self.sub_v)}

\* next(): nothing on the None return; else four vert calls and, when the
\* row is not 0, sub_v - 1
SphereUV_next_ops(self) ==
    LET wrap == self.u = self.sub_u
        s1 == IF wrap THEN [self EXCEPT !.u = 0, !.v = self.v + 1] ELSE self
    IN  IF wrap /\ Exhausted(s1)
        THEN {}
        ELSE vert_ops(s1, s1.u, s1.v) \cup vert_ops(s1, s1.u, s1.v + 1)
             \cup vert_ops(s1, s1.u + 1, s1.v + 1)
             \cup vert_ops(s1, s1.u + 1, s1.v)
             \cup (IF s1.v = 0 THEN {} ELSE {Sub(s1.sub_v, 1)})

shared_vertex_count_ops(self) == {Sub(self.sub_v, 1)}

shared_vertex_ops(self, idx) ==
    IF idx = 0
    THEN vert_ops(self, 0, 0)
    ELSE shared_vertex_count_ops(self)
         \cup {Sub(shared_vertex_count(self), 1)}
         \cup (IF idx = shared_vertex_count(self) - 1
               THEN vert_ops(self, 0, self.sub_v)
               ELSE {Sub(idx, 1), Mod(idx - 1, self.sub_u),
                     Div(idx - 1, self.sub_u)}
                    \cup (IF self.sub_u = 0 THEN {}
                          ELSE vert_ops(self, (idx - 1) % self.sub_u,
                                        ((idx - 1) \div self.sub_u) + 1)))

f_ops_hoisted(self, a, b) ==
    {Sub(b, 1), Mod(a, self.sub_u)}
        \cup (IF self.sub_v = b THEN {Sub(self.sub_v, 1)} ELSE {})
f_ops(self, a, b) ==
    IF b = 0
    THEN {}
    ELSE IF self.sub_v = b
    THEN {Sub(self.sub_v, 1)}
    ELSE {Sub(b, 1), Mod(a, self.sub_u)}

indexed_polygon_ops(self, idx) ==
    {Mod(idx, self.sub_u), Div(idx, self.sub_u)}
    \cup (IF self.sub_u = 0 THEN {}
          ELSE LET a == idx % self.sub_u
                   b == idx \div self.sub_u
               IN  IF b = 0
                   THEN f_ops(self, a, b) \cup f_ops(self, a, b + 1)
                        \cup f_ops(self, a + 1, b + 1)
                   ELSE {Sub(self.sub_v, 1)}
                        \cup f_ops(self, a, b) \cup f_ops(self, a + 1, b + 1)
                        \cup f_ops(self, a + 1, b)
                        \cup (IF self.sub_v - 1 = b THEN {}
                              ELSE f_ops(self, a, b + 1)))

indexed_polygon_count_ops(self) == {}

----------------------------------------------------------------------------
\* The sphere and its caller

Self == [u |-> u, v |-> v, sub_u |-> sub_u, sub_v |-> sub_v]

NoQuery == [op |-> "none"]

VertIdle ==
    /\ source = [kind |-> "none"]
    /\ buffer = <<>>
    /\ given = <<>>
    /\ pulled = <<>>
    /\ vcalls = 0
    /\ vret = None
    /\ vout = <<>>
    /\ firstNone = -1

PolyIdle ==
    /\ shape = Triangle(0, 0, 0)
    /\ fn = <<>>
    /\ mapped = None
    /\ mapCalls = <<>>
    /\ emitted = None
    /\ emittedMapped = None

MapIdle ==
    /\ mapSrc = [kind |-> "none"]
    /\ mapSrc0 = [kind |-> "none"]
    /\ mcalls = 0
    /\ mret = None
    /\ mout = <<>>

SphereIdle ==
    /\ u = 0 /\ v = 0 /\ sub_u = 0 /\ sub_v = 0
    /\ calls = 0
    /\ ret = None
    /\ hist = <<>>
    /\ q = NoQuery

Init ==
    /\ \E nu \in 0..MaxSubU, nv \in 0..MaxSubV :
          /\ u = SphereUV(nu, nv).u
          /\ v = SphereUV(nu, nv).v
          /\ sub_u = SphereUV(nu, nv).sub_u
          /\ sub_v = SphereUV(nu, nv).sub_v
    /\ calls = 0
    /\ ret = None
    /\ hist = <<>>
    /\ q = NoQuery
    /\ VertIdle
    /\ PolyIdle
    /\ MapIdle

\* one call of next() on the sphere
Next_SphereUV ==
    /\ calls < MaxCalls
    /\ LET r == SphereUV_next(Self)
       IN  /\ u' = r.self.u
           /\ v' = r.self.v
           /\ sub_u' = r.self.sub_u
           /\ sub_v' = r.self.sub_v
           /\ ret' = r.ret
           /\ hist' = Append(hist, r.ret)
    /\ calls' = calls + 1
    /\ UNCHANGED <<q, vertVars, polyVars, mapVars>>

Query_shared_vertex_count ==
    /\ q' = [op |-> "shared_vertex_count", val |-> shared_vertex_count(Self),
             arith |-> shared_vertex_count_ops(Self)]
    /\ UNCHANGED <<u, v, sub_u, sub_v, calls, ret, hist, vertVars, polyVars, mapVars>>

Query_shared_vertex ==
    /\ \E idx \in 0..MaxIdx :
          /\ ULt(idx, shared_vertex_count(Self))
          /\ q' = [op |-> "shared_vertex", idx |-> idx,
                   val |-> shared_vertex(Self, idx),
                   arith |-> shared_vertex_ops(Self, idx)]
    /\ UNCHANGED <<u, v, sub_u, sub_v, calls, ret, hist, vertVars, polyVars, mapVars>>

Query_indexed_polygon_count ==
    /\ q' = [op |-> "indexed_polygon_count",
             val |-> indexed_polygon_count(Self),
             arith |-> indexed_polygon_count_ops(Self)]
    /\ UNCHANGED <<u, v, sub_u, sub_v, calls, ret, hist, vertVars, polyVars, mapVars>>

Query_indexed_polygon ==
    /\ \E idx \in 0..MaxIdx :
          /\ ULt(idx, indexed_polygon_count(Self))
          /\ q' = [op |-> "indexed_polygon", idx |-> idx,
                   val |-> indexed_polygon(Self, idx),
                   arith |-> indexed_polygon_ops(Self, idx)]
    /\ UNCHANGED <<u, v, sub_u, sub_v, calls, ret, hist, vertVars, polyVars, mapVars>>

Next ==
    \/ Next_SphereUV
    \/ Query_shared_vertex_count
    \/ Query_shared_vertex
    \/ Query_indexed_polygon_count
    \/ Query_indexed_polygon

Spec == Init /\ [][Next]_vars

----------------------------------------------------------------------------
\* VerticesIterator

\* next() of the source SRC: a finished-for-good iterator over a sequence of
\* polygons, or a SphereUV
Source_next(src) ==
    IF src.kind = "list"
    THEN IF src.items = <<>>
         THEN [source |-> src, ret |-> None]
         ELSE [source |-> [src EXCEPT !.items = Tail(src.items)],
               ret |-> Some(Head(src.items))]
    ELSE LET r == SphereUV_next(src.g)
         IN  [source |-> [src EXCEPT !.g = r.self], ret |-> r.ret]

\* Vertices::vertices
Vertices(src) == [source |-> src, buffer |-> <<>>]

\* the sink |v| self.buffer.push_back(v)
Sink_front(buf, val) == <<val>> \o buf
Sink(buf, val) == Append(buf, val)

\* p.emit_vertices(sink): the buffer after the sink took the values vs in order
RECURSIVE Emit_into(_, _)
Emit_into(buf, vs) ==
    IF vs = <<>> THEN buf
    ELSE Emit_into(Sink(buf, Head(vs)), Tail(vs))

VerticesIterator_next_prefetch(self) ==
    LET refill(src) ==
            LET r == Source_next(src)
            IN  [source |-> r.source,
                 buffer |-> IF r.ret.some
                            THEN Emit_into(<<>>, emit_vertices(r.ret.val))
                            ELSE <<>>,
                 pulled |-> IF r.ret.some THEN <<r.ret.val>> ELSE <<>>]
        s0 == IF self.buffer = <<>>
              THEN refill(self.source)
              ELSE [source |-> self.source, buffer |-> self.buffer,
                    pulled |-> <<>>]
    IN  IF s0.buffer = <<>>
        THEN [self |-> [source |-> s0.source, buffer |-> <<>>],
              ret |-> None, pulled |-> <<>>]
        ELSE LET s1 == IF Len(s0.buffer) = 1
                       THEN refill(s0.source)
                       ELSE [source |-> s0.source, buffer |-> Tail(s0.buffer),
                             pulled |-> <<>>]
             IN  [self |-> [source |-> s1.source, buffer |-> s1.buffer],
                  ret |-> Some(Head(s0.buffer)),
                  pulled |-> s0.pulled \o s1.pulled]

\* Iterator::next for VerticesIterator: the new iterator, the returned value
\* and the polygons it pulled from the source; one unfolding is one turn of
\* the loop
RECURSIVE VerticesIterator_next(_)
VerticesIterator_next(self) ==
    IF self.buffer # <<>>
    THEN [self |-> [self EXCEPT !.buffer = Tail(self.buffer)],
          ret |-> Some(Head(self.buffer)),
          pulled |-> <<>>]
    ELSE LET r == Source_next(self.source)
         IN  IF r.ret.some
             THEN LET rest == VerticesIterator_next(
                                [source |-> r.source,
                                 buffer |-> Emit_into(self.buffer,
                                                emit_vertices(r.ret.val))])
                  IN  [rest EXCEPT !.pulled = <<r.ret.val>> \o rest.pulled]
             ELSE [self |-> [self EXCEPT !.source = r.source],
                   ret |-> None,
                   pulled |-> <<>>]

\* the sources explored: every sequence of up to MaxPolys polygons, the
\* vertices of polygon i being 10*i+1, 10*i+2, ..., and small spheres
ListPolygon(tag, i) ==
    IF tag = "PolyTri"
    THEN PolyTri(Triangle(10 * i + 1, 10 * i + 2, 10 * i + 3))
    ELSE PolyQuad(Quad(10 * i + 1, 10 * i + 2, 10 * i + 3, 10 * i + 4))

ListSources ==
    UNION {{[kind |-> "list",
             items |-> [i \in 1..n |-> ListPolygon(tags[i], i)]] :
               tags \in [1..n -> {"PolyTri", "PolyQuad"}]} : n \in 0..MaxPolys}

SphereSources ==
    {[kind |-> "sphere", g |-> SphereUV(nu, nv)] :
        nu \in 1..MaxSrcSub, nv \in 1..MaxSrcSub}

\* the polygons a source yields before its first None
RECURSIVE Run(_)
Run(src) ==
    LET r == Source_next(src)
    IN  IF r.ret.some THEN <<r.ret.val>> \o Run(r.source) ELSE <<>>

InitVertices ==
    /\ \E src \in ListSources \cup SphereSources :
          /\ source = Vertices(src).source
          /\ buffer = Vertices(src).buffer
          /\ given = Run(src)
    /\ pulled = <<>>
    /\ vcalls = 0
    /\ vret = None
    /\ vout = <<>>
    /\ firstNone = -1
    /\ SphereIdle
    /\ PolyIdle
    /\ MapIdle

\* one call of next() on the VerticesIterator
Next_VerticesIterator ==
    /\ vcalls < MaxVCalls
    /\ LET r == VerticesIterator_next([source |-> source, buffer |-> buffer])
       IN  /\ source' = r.self.source
           /\ buffer' = r.self.buffer
           /\ vret' = r.ret
           /\ pulled' = pulled \o r.pulled
           /\ vout' = IF r.ret.some THEN Append(vout, r.ret.val) ELSE vout
           /\ firstNone' = IF ~r.ret.some /\ firstNone = -1
                           THEN Len(vout) ELSE firstNone
    /\ vcalls' = vcalls + 1
    /\ UNCHANGED <<given, sphereVars, polyVars, mapVars>>

NextVertices == Next_VerticesIterator

SpecVertices == InitVertices /\ [][NextVertices]_vars

----------------------------------------------------------------------------
\* Shapes, mapped and emitted

VertexValues == 0..MaxVertex

Triangles == {Triangle(a, b, c) : a \in VertexValues, b \in VertexValues,
                                  c \in VertexValues}
Quads == {Quad(a, b, c, d) : a \in VertexValues, b \in VertexValues,
                             c \in VertexValues, d \in VertexValues}
Shapes ==
    Triangles \cup Quads
        \cup {PolyTri(t) : t \in Triangles} \cup {PolyQuad(t) : t \in Quads}

\* the closures explored: every function from the vertex values to 10..10+MaxVertex
Closures == [VertexValues -> {10 + a : a \in VertexValues}]

InitPoly ==
    /\ shape \in Shapes
    /\ fn \in Closures
    /\ mapped = None
    /\ mapCalls = <<>>
    /\ emitted = None
    /\ emittedMapped = None
    /\ SphereIdle
    /\ VertIdle
    /\ MapIdle

\* shape.map_vertex(fn); shape is Copy, and stays
Do_map_vertex ==
    /\ ~mapped.some
    /\ LET r == map_vertex(shape, fn, <<>>)
       IN  /\ mapped' = Some(r.p)
           /\ mapCalls' = r.log
    /\ UNCHANGED <<shape, fn, emitted, emittedMapped, sphereVars, vertVars, mapVars>>

\* shape.emit_vertices(sink), the sink collecting what it is given
Do_emit_vertices ==
    /\ ~emitted.some
    /\ emitted' = Some(emit_vertices(shape))
    /\ UNCHANGED <<shape, fn, mapped, mapCalls, emittedMapped,
                   sphereVars, vertVars, mapVars>>

\* the same on the mapped shape
Do_emit_mapped ==
    /\ mapped.some
    /\ ~emittedMapped.some
    /\ emittedMapped' = Some(emit_vertices(mapped.val))
    /\ UNCHANGED <<shape, fn, mapped, mapCalls, emitted, sphereVars, vertVars, mapVars>>

NextPoly ==
    \/ Do_map_vertex
    \/ Do_emit_vertices
    \/ Do_emit_mapped

SpecPoly == InitPoly /\ [][NextPoly]_vars

----------------------------------------------------------------------------
\* MapToVerticesIter

\* MapToVertices::vertex
MapToVerticesIter(src, map) == [src |-> src, f |-> map]

\* Iterator::next for MapToVerticesIter: the new iterator, the returned value
\* and the log of the calls of f
MapToVerticesIter_next_retry(self, log) ==
    LET r0 == Source_next(self.src)
        r == IF r0.ret.some THEN r0 ELSE Source_next(r0.source)
    IN  IF r.ret.some
        THEN LET m == map_vertex(r.ret.val, self.f, log)
             IN  [self |-> [self EXCEPT !.src = r.source],
                  ret |-> Some(m.p), log |-> m.log]
        ELSE [self |-> [self EXCEPT !.src = r.source],
              ret |-> None, log |-> log]
MapToVerticesIter_next(self, log) ==
    LET r == Source_next(self.src)
    IN  IF r.ret.some
        THEN LET m == map_vertex(r.ret.val, self.f, log)
             IN  [self |-> [self EXCEPT !.src = r.source],
                  ret |-> Some(m.p), log |-> m.log]
        ELSE [self |-> [self EXCEPT !.src = r.source],
              ret |-> None, log |-> log]

\* the vertex values of the sources explored: the labels of the polygon
\* sequences, and the grid points a small sphere visits in MaxMCalls calls
Labels == {10 * i + j : i \in 1..MaxPolys, j \in 1..4}
GridPoints ==
    {[gu |-> a, gv |-> b] : a \in 0..MaxSrcSub, b \in 0..(MaxMCalls + MaxSrcSub + 1)}

\* the closures explored: two one-to-one functions on each kind of vertex
LabelClosures == {[a \in Labels |-> 100 * k + a] : k \in 1..2}
GridClosures ==
    {[g \in GridPoints |-> [gu |-> g.gu + k, gv |-> g.gv + 100]] : k \in 1..2}

InitMap ==
    /\ \E src \in ListSources \cup SphereSources :
        \E map \in (IF src.kind = "list" THEN LabelClosures ELSE GridClosures) :
          /\ mapSrc = MapToVerticesIter(src, map).src
          /\ fn = MapToVerticesIter(src, map).f
          /\ mapSrc0 = src
    /\ mcalls = 0
    /\ mret = None
    /\ mout = <<>>
    /\ mapCalls = <<>>
    /\ shape = Triangle(0, 0, 0)
    /\ mapped = None
    /\ emitted = None
    /\ emittedMapped = None
    /\ SphereIdle
    /\ VertIdle

\* one call of next() on the MapToVerticesIter
Next_MapToVerticesIter ==
    /\ mcalls < MaxMCalls
    /\ LET r == MapToVerticesIter_next([src |-> mapSrc, f |-> fn], mapCalls)
       IN  /\ mapSrc' = r.self.src
           /\ fn' = r.self.f
           /\ mret' = r.ret
           /\ mout' = Append(mout, r.ret)
           /\ mapCalls' = r.log
    /\ mcalls' = mcalls + 1
    /\ UNCHANGED <<mapSrc0, shape, mapped, emitted, emittedMapped,
                   sphereVars, vertVars>>

NextMap == Next_MapToVerticesIter

SpecMap == InitMap /\ [][NextMap]_vars

----------------------------------------------------------------------------
\* Properties of the streaming form

Regular == sub_u >= 1 /\ sub_v >= 2

\* the number of entries of a sequence of returned values that are polygons
RECURSIVE CountSome(_)
CountSome(h) ==
    IF h = <<>> THEN 0
    ELSE (IF h[1].some THEN 1 ELSE 0) + CountSome(Tail(h))

\* the number of polygons with the given tag among the first n entries of h
RECURSIVE CountTag(_, _, _)
CountTag(h, n, tag) ==
    IF n = 0 THEN 0
    ELSE (IF h[n].some /\ h[n].val.tag = tag THEN 1 ELSE 0)
         + CountTag(h, n - 1, tag)

\* C1: for sub_u >= 1 and sub_v >= 2 a fresh SphereUV returns a polygon on
\* each of its first sub_u*sub_v calls to next() and None on call number
\* sub_u*sub_v + 1, and the number of polygons yielded up to that None is
\* indexed_polygon_count().
C1_YieldsCountPolygons ==
    Regular =>
        /\ \A k \in 1..Len(hist) : k <= sub_u * sub_v => hist[k].some
        /\ Len(hist) > sub_u * sub_v => ~hist[sub_u * sub_v + 1].some
        /\ Len(hist) > sub_u * sub_v =>
              CountSome(SubSeq(hist, 1, sub_u * sub_v + 1))
                  = indexed_polygon_count(Self)

C1_Witness ==
    /\ sub_u = 3 /\ sub_v = 4
    /\ calls = 13
    /\ ~ret.some
    /\ CountSome(hist) = 12

\* C2 (as claimed): once next() has returned None, every later call returns
\* None, for sub_u >= 1 and sub_v >= 1.
C2_StaysExhausted ==
    (sub_u >= 1 /\ sub_v >= 1) =>
        \A i \in 1..Len(hist) : \A j \in 1..Len(hist) :
            (i < j /\ ~hist[i].some) => ~hist[j].some

\* C3 (as claimed): the cursor satisfies 0 <= u <= sub_u and 0 <= v <= sub_v
\* in every state reachable by next() calls, the calls after None included;
\* stated here for the resolutions sub_u >= 1, sub_v >= 1 only.
C3_CursorInBounds ==
    (sub_u >= 1 /\ sub_v >= 1) =>
        (0 <= u /\ u <= sub_u /\ 0 <= v /\ v <= sub_v)

\* C4: for sub_u >= 1, sub_v >= 2 and k < sub_u*sub_v the k-th polygon
\* yielded is a Triangle if its row k / sub_u is 0 or sub_v-1 and a Quad
\* otherwise; a full run yields 2*sub_u Triangles and sub_u*(sub_v-2) Quads.
C4_RowShapes ==
    Regular =>
        /\ \A k \in 0..(Len(hist) - 1) :
              k < sub_u * sub_v =>
                LET row == k \div sub_u
                    p == hist[k + 1].val
                IN  IF row = 0 \/ row = sub_v - 1
                    THEN p.tag = "PolyTri" /\ DOMAIN p.p = {"x", "y", "z"}
                    ELSE p.tag = "PolyQuad" /\ DOMAIN p.p = {"x", "y", "z", "w"}
        /\ Len(hist) >= sub_u * sub_v =>
              /\ CountTag(hist, sub_u * sub_v, "PolyTri") = 2 * sub_u
              /\ CountTag(hist, sub_u * sub_v, "PolyQuad") = sub_u * (sub_v - 2)

C4_Witness ==
    /\ sub_u = 4 /\ sub_v = 4
    /\ calls = 16
    /\ CountTag(hist, 16, "PolyTri") = 8
    /\ CountTag(hist, 16, "PolyQuad") = 8

----------------------------------------------------------------------------
\* Properties of the indexed form

\* C5: for sub_u >= 1, sub_v >= 2 and k < sub_u*sub_v the k-th polygon
\* yielded by next() and indexed_polygon(k) have the same variant, and in
\* each vertex slot the grid point given to vert by next() and the grid point
\* given to vert by shared_vertex for the index in that slot are the same
\* position (longitude modulo sub_u, each pole row one point).
C5_StreamMatchesIndexed ==
    Regular =>
        \A k \in 0..(Len(hist) - 1) :
            k < sub_u * sub_v =>
              LET sp == hist[k + 1].val
                  ip == indexed_polygon(Self, k)
                  sv == emit_vertices(sp)
                  iv == emit_vertices(ip)
              IN  /\ sp.tag = ip.tag
                  /\ Len(sv) = Len(iv)
                  /\ \A i \in 1..Len(sv) :
                        Position(Self, sv[i])
                            = Position(Self, shared_vertex(Self, iv[i]))

C5_Witness ==
    /\ sub_u = 3 /\ sub_v = 3
    /\ calls = 9
    /\ ret.some /\ ret.val.tag = "PolyTri"
    /\ indexed_polygon(Self, 8).tag = "PolyTri"
    /\ hist[6].val.tag = "PolyQuad"
    /\ hist[6].val.p.z = [gu |-> 3, gv |-> 2]
    /\ shared_vertex(Self, indexed_polygon(Self, 5).p.z) = [gu |-> 0, gv |-> 2]

\* the grid points of the rows strictly between the poles
Interior == {[gu |-> a, gv |-> b] : a \in 0..(sub_u - 1), b \in 1..(sub_v - 1)}

\* C6: for sub_u >= 1 and sub_v >= 2, shared_vertex_count() is
\* (sub_v-1)*sub_u + 2, shared_vertex(0) is the grid point (0,0),
\* shared_vertex(count-1) is the grid point (0,sub_v), and shared_vertex on
\* 1..count-2 is a bijection onto the interior grid points.
C6_SharedVertexTable ==
    Regular =>
        LET n == shared_vertex_count(Self)
        IN  /\ n = (sub_v - 1) * sub_u + 2
            /\ q.op = "shared_vertex_count" => q.val = (sub_v - 1) * sub_u + 2
            /\ shared_vertex(Self, 0) = [gu |-> 0, gv |-> 0]
            /\ shared_vertex(Self, n - 1) = [gu |-> 0, gv |-> sub_v]
            /\ \A i \in 1..(n - 2) : shared_vertex(Self, i) \in Interior
            /\ \A i \in 1..(n - 2) : \A j \in 1..(n - 2) :
                  shared_vertex(Self, i) = shared_vertex(Self, j) => i = j
            /\ \A g \in Interior : \E i \in 1..(n - 2) :
                  shared_vertex(Self, i) = g
            /\ (q.op = "shared_vertex" /\ q.idx >= 1 /\ q.idx <= n - 2) =>
                  q.val \in Interior

C6_Witness ==
    /\ sub_u = 4 /\ sub_v = 4
    /\ q.op = "shared_vertex"
    /\ q.idx = 13
    /\ q.val = [gu |-> 0, gv |-> 4]
    /\ shared_vertex(Self, 12) = [gu |-> 3, gv |-> 3]

\* the indexed polygon of the cell (a, b)
Cell(a, b) == indexed_polygon(Self, b * sub_u + a).p

\* the index a cell's polygon holds for each corner of the cell; a pole-row
\* triangle holds the pole once, for both corners on the pole
UpperLeft(a, b)  == IF b = sub_v - 1 THEN Cell(a, b).z ELSE Cell(a, b).x
LowerLeft(a, b)  == IF b = sub_v - 1 THEN Cell(a, b).x ELSE Cell(a, b).y
LowerRight(a, b) == IF b = sub_v - 1 THEN Cell(a, b).x ELSE Cell(a, b).z
UpperRight(a, b) ==
    IF b = 0 THEN Cell(a, b).x
    ELSE IF b = sub_v - 1 THEN Cell(a, b).y
    ELSE Cell(a, b).w

\* C7: for sub_u >= 1 and sub_v >= 2 the right-edge indices of the indexed
\* polygon of cell (a,b) are the left-edge indices of cell ((a+1) mod sub_u, b),
\* the lower-edge indices of cell (a,b) are the upper-edge indices of cell
\* (a,b+1), every row-0 triangle references index 0 and every row-(sub_v-1)
\* triangle references index shared_vertex_count()-1.
C7_SharedIndices ==
    Regular =>
        \A a \in 0..(sub_u - 1) : \A b \in 0..(sub_v - 1) :
            /\ UpperRight(a, b) = UpperLeft((a + 1) % sub_u, b)
            /\ LowerRight(a, b) = LowerLeft((a + 1) % sub_u, b)
            /\ b + 1 <= sub_v - 1 =>
                  /\ LowerLeft(a, b) = UpperLeft(a, b + 1)
                  /\ LowerRight(a, b) = UpperRight(a, b + 1)
            /\ b = 0 => Cell(a, b).x = 0
            /\ b = sub_v - 1 => Cell(a, b).x = shared_vertex_count(Self) - 1
            /\ (q.op = "indexed_polygon" /\ q.idx = b * sub_u + a) =>
                  q.val.p = Cell(a, b)

C7_Witness ==
    /\ sub_u = 4 /\ sub_v = 4
    /\ q.op = "indexed_polygon"
    /\ q.idx = 7
    /\ q.val = PolyQuad(Quad(4, 8, 5, 1))

----------------------------------------------------------------------------
\* Properties of VerticesIterator

\* the vertices of a sequence of polygons, each polygon's in the order
\* x, y, z[, w], written out slot by slot
RECURSIVE Flatten(_)
Flatten(ps) ==
    IF ps = <<>> THEN <<>>
    ELSE LET t == Head(ps).p
         IN  (IF Head(ps).tag = "PolyTri"
              THEN <<t.x, t.y, t.z>>
              ELSE <<t.x, t.y, t.z, t.w>>) \o Flatten(Tail(ps))

RECURSIVE Arity(_)
Arity(ps) ==
    IF ps = <<>> THEN 0
    ELSE (IF Head(ps).tag = "PolyTri" THEN 3 ELSE 4) + Arity(Tail(ps))

IsPrefix(a, b) == Len(a) <= Len(b) /\ a = SubSeq(b, 1, Len(a))

\* C8: the values VerticesIterator::next() returns before its first None are
\* the concatenation, in source order, of each source polygon's vertices in
\* the order x, y, z[, w]: 3 per Triangle and 4 per Quad, none lost,
\* duplicated or reordered.
C8_FlattensInOrder ==
    /\ firstNone = -1 =>
          /\ IsPrefix(vout, Flatten(given))
          /\ vout \o buffer = Flatten(pulled)
          /\ IsPrefix(pulled, given)
    /\ firstNone # -1 =>
          /\ SubSeq(vout, 1, firstNone) = Flatten(given)
          /\ firstNone = Arity(given)

C8_Witness ==
    /\ source.kind = "list"
    /\ given = <<ListPolygon("PolyQuad", 1), ListPolygon("PolyTri", 2),
                 ListPolygon("PolyQuad", 3)>>
    /\ firstNone = 11
    /\ ~vret.some
    /\ vout = <<11, 12, 13, 14, 21, 22, 23, 31, 32, 33, 34>>

----------------------------------------------------------------------------
\* Properties of map_vertex and emit_vertices

\* C9: the values emitted by emit_vertices(map_vertex(P, f)) are f applied
\* element-wise to the values emitted by emit_vertices(P), for P a Triangle,
\* a Quad or either variant of Polygon.
C9_MapEmitCommute ==
    (emitted.some /\ emittedMapped.some) =>
        /\ Len(emittedMapped.val) = Len(emitted.val)
        /\ \A i \in 1..Len(emitted.val) :
              emittedMapped.val[i] = fn[emitted.val[i]]

C9_Witness ==
    /\ shape = PolyTri(Triangle(0, 1, 1))
    /\ fn[0] = 11 /\ fn[1] = 10
    /\ emitted = Some(<<0, 1, 1>>)
    /\ emittedMapped = Some(<<11, 10, 10>>)

\* the slots of a shape, in the order x, y, z[, w]
Slots(s) == IF IsQuad(s) THEN <<"x", "y", "z", "w">> ELSE <<"x", "y", "z">>

\* C10: map_vertex returns a shape of the same kind and arity (the Polygon
\* tag unchanged), calls f once per vertex in the order x, y, z[, w], and
\* slot i of the result holds f of slot i of the input.
C10_MapPreservesShape ==
    mapped.some =>
        LET m == mapped.val
            si == IF IsPolygon(shape) THEN shape.p ELSE shape
            sm == IF IsPolygon(m) THEN m.p ELSE m
        IN  /\ IsPolygon(m) = IsPolygon(shape)
            /\ IsPolygon(shape) => m.tag = shape.tag
            /\ DOMAIN sm = DOMAIN si
            /\ \A k \in DOMAIN si : sm[k] = fn[si[k]]
            /\ Len(mapCalls) = Len(Slots(si))
            /\ \A i \in 1..Len(mapCalls) : mapCalls[i] = si[Slots(si)[i]]

C10_Witness ==
    /\ shape = PolyQuad(Quad(0, 1, 1, 0))
    /\ fn[0] = 10 /\ fn[1] = 11
    /\ mapped = Some(PolyQuad(Quad(10, 11, 11, 10)))
    /\ mapCalls = <<0, 1, 1, 0>>

----------------------------------------------------------------------------
\* Properties of MapToVerticesIter

\* the first n values a source returns, and the source after them
RECURSIVE Trace(_, _)
Trace(src, n) ==
    IF n = 0 THEN <<>>
    ELSE LET r == Source_next(src)
         IN  <<r.ret>> \o Trace(r.source, n - 1)

RECURSIVE After(_, _)
After(src, n) ==
    IF n = 0 THEN src ELSE After(Source_next(src).source, n - 1)

\* the vertices of the polygons among a sequence of returned values
RECURSIVE FlattenSome(_)
FlattenSome(rs) ==
    IF rs = <<>> THEN <<>>
    ELSE (IF Head(rs).some THEN Flatten(<<Head(rs).val>>) ELSE <<>>)
         \o FlattenSome(Tail(rs))

\* C11: each call of MapToVerticesIter::next() pulls exactly one item from
\* the source; if the item is a polygon the call returns it mapped slot by
\* slot with the wrapped transform, the variant kept, and if the source
\* signals exhaustion the call returns None and does not call the transform.
C11_OneToOne ==
    mapSrc0.kind # "none" =>
        LET t == Trace(mapSrc0, Len(mout))
        IN  /\ Len(mout) = mcalls
            /\ mapSrc = After(mapSrc0, mcalls)
            /\ \A n \in 1..Len(mout) :
                  IF t[n].some
                  THEN /\ mout[n].some
                       /\ mout[n].val.tag = t[n].val.tag
                       /\ DOMAIN mout[n].val.p = DOMAIN t[n].val.p
                       /\ \A k \in DOMAIN t[n].val.p :
                             mout[n].val.p[k] = fn[t[n].val.p[k]]
                  ELSE mout[n] = None
            /\ mapCalls = FlattenSome(t)

C11_Witness ==
    /\ mapSrc0.kind = "list"
    /\ mapSrc0.items = <<ListPolygon("PolyTri", 1), ListPolygon("PolyQuad", 2)>>
    /\ fn[11] = 111
    /\ mcalls = 3
    /\ mout = <<Some(PolyTri(Triangle(111, 112, 113))),
                Some(PolyQuad(Quad(121, 122, 123, 124))), None>>
    /\ mapCalls = <<11, 12, 13, 21, 22, 23, 24>>

----------------------------------------------------------------------------
\* The indexed form and the cursor

\* what a query returns on a generator on which next() was never called
FreshAnswer ==
    LET fresh == SphereUV(sub_u, sub_v)
    IN  CASE q.op = "shared_vertex_count" -> shared_vertex_count(fresh)
          [] q.op = "shared_vertex" -> shared_vertex(fresh, q.idx)
          [] q.op = "indexed_polygon_count" -> indexed_polygon_count(fresh)
          [] q.op = "indexed_polygon" -> indexed_polygon(fresh, q.idx)

\* C12: shared_vertex, shared_vertex_count, indexed_polygon and
\* indexed_polygon_count return, after any number of next() calls, what they
\* return on a fresh generator of the same sub_u, sub_v for the same index;
\* a step that is not a next() call leaves u and v unchanged; and no step
\* changes sub_u or sub_v.
C12_QueriesIgnoreCursor ==
    /\ [](q.op # "none" => q.val = FreshAnswer)
    /\ [][/\ sub_u' = sub_u
          /\ sub_v' = sub_v
          /\ calls' = calls => (u' = u /\ v' = v)]_vars

C12_Witness ==
    /\ sub_u = 3 /\ sub_v = 3
    /\ calls = 5
    /\ u = 2 /\ v = 1
    /\ q.op = "indexed_polygon"
    /\ q.idx = 8
    /\ q.val = PolyTri(Triangle(7, 4, 6))

----------------------------------------------------------------------------
\* Degenerate resolutions

Degenerate == sub_u = 0 \/ sub_v <= 1

\* C13 (as claimed): for sub_u = 0 or sub_v <= 1 a fresh SphereUV yields
\* exactly sub_u*sub_v polygons, the number indexed_polygon_count() gives,
\* and then returns None.
C13_DegenerateTerminates ==
    Degenerate =>
        /\ \A k \in 1..Len(hist) :
              k <= indexed_polygon_count(Self) => hist[k].some
        /\ Len(hist) > indexed_polygon_count(Self) =>
              ~hist[indexed_polygon_count(Self) + 1].some

----------------------------------------------------------------------------
\* VerticesIterator: exhaustion, laziness and the buffer

\* C14 (as claimed): once VerticesIterator::next() has returned None, every
\* later call returns None and yields no further vertex, whatever the
\* source, a SphereUV included.
C14_VerticesStayExhausted ==
    firstNone # -1 => (~vret.some /\ Len(vout) = firstNone)

\* C15: the source is pulled only when the buffer is empty and at most once
\* per next() call; the buffer holds at most 3 vertices between calls and at
\* most 4 right after a polygon was emitted into it; and after n vertices
\* were returned the number of polygons pulled is the least m such that the
\* first m polygons have total arity >= n.
C15_LazyBoundedBuffer ==
    /\ [](/\ Len(buffer) <= 3
          /\ Arity(pulled) >= Len(vout)
          /\ pulled # <<>> =>
                Arity(SubSeq(pulled, 1, Len(pulled) - 1)) < Len(vout))
    /\ [][LET k == Len(pulled') - Len(pulled)
              r == Source_next(source)
          IN  /\ k \in {0, 1}
              /\ buffer # <<>> => (k = 0 /\ source' = source)
              /\ buffer = <<>> =>
                    /\ source' = r.source
                    /\ k = (IF r.ret.some THEN 1 ELSE 0)
                    /\ r.ret.some => pulled' = Append(pulled, r.ret.val)
              /\ k = 1 => Len(buffer') + 1 <= 4]_vars

C15_Witness ==
    /\ source.kind = "list"
    /\ given = <<ListPolygon("PolyQuad", 1), ListPolygon("PolyTri", 2)>>
    /\ vout = <<11, 12, 13, 14, 21>>
    /\ buffer = <<22, 23>>
    /\ Len(pulled) = 2
    /\ source.items = <<>>

----------------------------------------------------------------------------
\* Index ranges and arithmetic

\* C16: for sub_u >= 1, sub_v >= 2 and idx < indexed_polygon_count(), every
\* index in indexed_polygon(idx) is below shared_vertex_count(), and every
\* index below shared_vertex_count() is in some indexed polygon.
C16_IndicesInRangeAndUsed ==
    Regular =>
        LET n == shared_vertex_count(Self)
            used(idx) == {emit_vertices(indexed_polygon(Self, idx))[i] :
                            i \in 1..Len(emit_vertices(indexed_polygon(Self, idx)))}
        IN  /\ \A idx \in 0..(indexed_polygon_count(Self) - 1) :
                  \A j \in used(idx) : 0 <= j /\ j < n
            /\ \A j \in 0..(n - 1) :
                  \E idx \in 0..(indexed_polygon_count(Self) - 1) :
                      j \in used(idx)
            /\ q.op = "indexed_polygon" =>
                  \A i \in 1..Len(emit_vertices(q.val)) :
                      emit_vertices(q.val)[i] < n

C16_Witness ==
    /\ sub_u = 4 /\ sub_v = 4
    /\ q.op = "indexed_polygon"
    /\ q.idx = 15
    /\ q.val = PolyTri(Triangle(13, 9, 12))
    /\ shared_vertex_count(Self) = 14

\* an operation that neither wraps below zero nor divides by zero
SafeOp(o) == IF o.op = "sub" THEN o.a >= o.b ELSE o.b # 0

\* C17: for sub_u >= 1 and sub_v >= 1 no subtraction goes below zero and no
\* division or remainder has a zero divisor in next() up to and including
\* the first None, in shared_vertex and indexed_polygon for the indices below
\* their counts, and in shared_vertex_count; v - 1 in the closure f is
\* evaluated only for v >= 1.
C17_NoUnderflowNoZeroDivide ==
    (sub_u >= 1 /\ sub_v >= 1) =>
        /\ CountSome(hist) = Len(hist) =>
              \A o \in SphereUV_next_ops(Self) : SafeOp(o)
        /\ q.op # "none" => \A o \in q.arith : SafeOp(o)

C17_Witness ==
    /\ sub_u = 1 /\ sub_v = 1
    /\ calls = 1
    /\ ret.some
    /\ SphereUV_next_ops(Self) = {}
    /\ q.op = "indexed_polygon"
    /\ q.idx = 0
    /\ Sub(1, 1) \in q.arith

====
